---- MODULE Spec2Model ----
(***************************************************************************)
(* Model of three components of the AE-Agent repository:                   *)
(*   - generate_testset_with_pacing (dataset_gen_service.py): the paced    *)
(*     batch runner with retry and backoff;                                *)
(*   - the merge loop of chunk_markdown.py main(): the chunk assembler;    *)
(*   - rerank_documents / get_reranker (retrieval_qa.py): the ranker.      *)
(* Text is modelled as a sequence of one-character strings, so that        *)
(* str.split(), str.lower() and substring tests are computed, not assumed. *)
(* Floats (sleep durations, scores) are modelled as integers.              *)
(***************************************************************************)
EXTENDS Integers, Sequences, FiniteSets, TLC

VARIABLES
    \* ---- generate_testset_with_pacing ----
    args,           \* its parameters: total, batch_size, sleep_seconds, ...
    rows,           \* local `rows`
    remaining,      \* local `remaining`
    current_size,   \* local `current_size`
    attempt,        \* local `attempt`
    exc,            \* the exception bound by `except Exception as exc`: <<>> or <<message>>
    p_pc,           \* position in the function
    sleeps,         \* observed time.sleep calls, in order
    sizes,          \* every batch call that succeeded: call number, testset_size, rows returned
    ncalls,         \* number of generate_with_langchain_docs calls made
    caller_rows,    \* what main() binds to `rows` from the call (line 364)
    \* ---- chunk_markdown.main merge loop ----
    cargs,          \* args.chunk_size, args.min_tokens, args.overlap
    semantic_chunks,
    pos,            \* index of the next element of semantic_chunks
    buffer_text,
    buffer_metadata,
    buffer_count,
    merged_sections,
    c_pc,
    buffer_seed,    \* number of leading words of buffer_text that are overlap seed
    seeds,          \* buffer_seed of every emitted passage, in order
    buffer_folded,  \* indices of the sub-passages appended since the buffer was last empty or seeded
    buffer_src,     \* for every word of buffer_text, the index of the sub-passage it was read from
    folded,         \* buffer_folded of every emitted passage, in order
    srcs,           \* buffer_src of every emitted passage, in order
    output_file,    \* the characters of args.output
    \* ---- semantic_encoder.load_chunks ----
    chunks,         \* what load_chunks(args.input) returned
    e_pc,
    \* ---- retrieval_qa ----
    reranker,       \* module global _reranker: <<>> (None) or <<model_name>>
    r_call,         \* arguments of the latest rerank_documents call
    r_scores,       \* what reranker.predict returned in that call
    r_raised,       \* what reranker.predict raised in that call: <<>> or <<exception>>
    r_ranked,       \* local `ranked` of that call
    r_out,          \* outcome of that call
    r_loads,        \* number of CrossEncoder(...) constructions so far
    r_pc            \* position in rerank_documents

pacerVars == <<args, rows, remaining, current_size, attempt, exc, p_pc, sleeps,
               sizes, ncalls, caller_rows>>
chunkVars == <<cargs, semantic_chunks, pos, buffer_text, buffer_metadata,
               buffer_count, merged_sections, c_pc, buffer_seed, seeds,
               buffer_folded, buffer_src, folded, srcs, output_file, chunks,
               e_pc>>
rankVars == <<reranker, r_call, r_scores, r_raised, r_ranked, r_out, r_loads, r_pc>>
vars == <<pacerVars, chunkVars, rankVars>>

----------------------------------------------------------------------------
(* Generic helpers over sequences *)

Min(a, b) == IF a <= b THEN a ELSE b

Max(a, b) == IF a >= b THEN a ELSE b

RECURSIVE Pow(_, _)
Pow(b, e) == IF e <= 0 THEN 1 ELSE b * Pow(b, e - 1)

\* Python `sub in s` on strings
Contains(s, sub) ==
    \E i \in 0..(Len(s) - Len(sub)) : SubSeq(s, i + 1, i + Len(sub)) = sub

UpperAlpha == <<"A","B","C","D","E","F","G","H","I","J","K","L","M",
                "N","O","P","Q","R","S","T","U","V","W","X","Y","Z">>

LowerAlpha == <<"a","b","c","d","e","f","g","h","i","j","k","l","m",
                "n","o","p","q","r","s","t","u","v","w","x","y","z">>

\* Python str.lower()
Lower(s) ==
    [i \in 1..Len(s) |->
        IF \E k \in 1..26 : UpperAlpha[k] = s[i]
        THEN LowerAlpha[CHOOSE k \in 1..26 : UpperAlpha[k] = s[i]]
        ELSE s[i]]

----------------------------------------------------------------------------
(* generate_testset_with_pacing *)

MaxTotal == 3
MaxBatch == 2
MaxRetries == 1

RateLimitKeywords ==
    { <<"r","a","t","e"," ","l","i","m","i","t">>,
      <<"4","2","9">> }

TransientKeywords ==
    { <<"t","i","m","e","o","u","t">>,
      <<"c","o","n","n","e","c","t","i","o","n">>,
      <<"t","e","m","p","o","r","a","r","i","l","y"," ","u","n","a","v","a","i","l","a","b","l","e">>,
      <<"i","n","t","e","r","n","a","l"," ","s","e","r","v","e","r"," ","e","r","r","o","r">>,
      <<"s","e","r","v","i","c","e"," ","u","n","a","v","a","i","l","a","b","l","e">>,
      <<"u","p","s","t","r","e","a","m"," ","c","o","n","n","e","c","t"," ","e","r","r","o","r">> }

\* Messages the generation service may fail with
Msg429 == <<"4","2","9"," ","r","a","t","e"," ","l","i","m","i","t">>
MsgInvalid == <<"i","n","v","a","l","i","d"," ","r","e","q","u","e","s","t">>
MsgRateLimit == <<"R","a","t","e"," ","L","i","m","i","t">>
MsgTimeout == <<"R","e","a","d"," ","T","i","m","e","o","u","t">>
MsgGateway == <<"b","a","d"," ","g","a","t","e","w","a","y">>
Messages == {Msg429, MsgInvalid, MsgRateLimit, MsgTimeout, MsgGateway}

is_rate_limit(message) == \E k \in RateLimitKeywords : Contains(message, k)

is_transient(message) == \E k \in TransientKeywords : Contains(message, k)

\* line 154, negated: the failure is retried
RetriesMutAlways(e, att, max) == TRUE

RetriesMutOffByOne(e, att, max) ==
    LET message == Lower(e)
    IN  (is_rate_limit(message) \/ is_transient(message)) /\ att <= max

Retries(e, att, max) ==
    LET message == Lower(e)
    IN  ~(~(is_rate_limit(message) \/ is_transient(message)) \/ att >= max)

\* line 156
SleepForMutLinear(base, backoff, att) == base * backoff * att

SleepFor(base, backoff, att) == base * Pow(backoff, att)

\* line 129
CurrentSizeMutWhole(bs, rem) == bs

CurrentSize(bs, rem) == Min(bs, rem)

\* rows of one batch call: call number and index in the returned testset
NewRows(call, n) == [k \in 1..n |-> <<call, k>>]

\* line 163
ExtendMutTwice(rs, new) == rs \o new \o new

Extend(rs, new) == rs \o new

\* The configuration of spec section 8: total=20, batch_size=7, max_retries=5
ExampleArgs ==
    [total |-> 20, batch_size |-> 7, sleep_seconds |-> 5, max_retries |-> 5,
     retry_sleep_seconds |-> 15, retry_backoff |-> 2]

PacerArgs ==
    [total : 0..MaxTotal, batch_size : 1..MaxBatch, sleep_seconds : {0, 1},
     max_retries : 0..MaxRetries, retry_sleep_seconds : {1, 3},
     retry_backoff : {1, 2}]
    \cup {ExampleArgs}

PacerInit ==
    /\ args \in PacerArgs
    /\ rows = <<>>
    /\ remaining = args.total
    /\ current_size = 0
    /\ attempt = 0
    /\ exc = <<>>
    /\ p_pc = "while"
    /\ sleeps = <<>>
    /\ sizes = <<>>
    /\ ncalls = 0
    /\ caller_rows = <<>>

PacerIdle ==
    /\ args = ExampleArgs
    /\ rows = <<>>
    /\ remaining = 0
    /\ current_size = 0
    /\ attempt = 0
    /\ exc = <<>>
    /\ p_pc = "idle"
    /\ sleeps = <<>>
    /\ sizes = <<>>
    /\ ncalls = 0
    /\ caller_rows = <<>>

\* lines 128-131: the while test succeeds, a batch starts
BatchBegin ==
    /\ p_pc = "while"
    /\ remaining > 0
    /\ current_size' = CurrentSize(args.batch_size, remaining)
    /\ attempt' = 0
    /\ p_pc' = "try"
    /\ UNCHANGED <<args, rows, remaining, exc, sleeps, sizes, ncalls, caller_rows>>
    /\ UNCHANGED <<chunkVars, rankVars>>

\* lines 128, 168: the while test fails, rows are returned to main (line 364)
Return ==
    /\ p_pc = "while"
    /\ ~(remaining > 0)
    /\ p_pc' = "returned"
    /\ caller_rows' = rows
    /\ UNCHANGED <<args, rows, remaining, current_size, attempt, exc, sleeps,
                   sizes, ncalls>>
    /\ UNCHANGED <<chunkVars, rankVars>>

\* lines 134-139, 163-167: the call returns a testset of n rows
CallSucceeds ==
    /\ p_pc = "try"
    /\ \E n \in {current_size, Max(current_size - 1, 0)} :
          /\ rows' = Extend(rows, NewRows(ncalls + 1, n))
          /\ sizes' = Append(sizes, [call |-> ncalls + 1, size |-> current_size,
                                     returned |-> n])
    /\ ncalls' = ncalls + 1
    /\ remaining' = remaining - current_size
    /\ exc' = <<>>
    /\ sleeps' = IF remaining' > 0 /\ args.sleep_seconds > 0
                 THEN Append(sleeps, [kind |-> "pace", batch |-> Len(sizes) + 1,
                                      secs |-> args.sleep_seconds])
                 ELSE sleeps
    /\ p_pc' = "while"
    /\ UNCHANGED <<args, current_size, attempt, caller_rows>>
    /\ UNCHANGED <<chunkVars, rankVars>>

\* lines 140-162: the call raises and the failure is retried
CallFailsRetry ==
    /\ p_pc = "try"
    /\ \E e \in Messages :
          /\ Retries(e, attempt, args.max_retries)
          /\ exc' = <<e>>
    /\ ncalls' = ncalls + 1
    /\ sleeps' = Append(sleeps,
                    [kind |-> "retry", batch |-> Len(sizes) + 1,
                     secs |-> SleepFor(args.retry_sleep_seconds,
                                       args.retry_backoff, attempt)])
    /\ attempt' = attempt + 1
    /\ UNCHANGED <<args, rows, remaining, current_size, p_pc, sizes, caller_rows>>
    /\ UNCHANGED <<chunkVars, rankVars>>

\* lines 140-155: the call raises and the exception is re-raised to main, which
\* does not catch it (line 364): main's `rows` is never bound
CallFailsRaise ==
    /\ p_pc = "try"
    /\ \E e \in Messages :
          /\ ~Retries(e, attempt, args.max_retries)
          /\ exc' = <<e>>
    /\ ncalls' = ncalls + 1
    /\ p_pc' = "raised"
    /\ UNCHANGED <<args, rows, remaining, current_size, attempt, sleeps, sizes,
                   caller_rows>>
    /\ UNCHANGED <<chunkVars, rankVars>>

PacerNext ==
    \/ BatchBegin
    \/ Return
    \/ CallSucceeds
    \/ CallFailsRetry
    \/ CallFailsRaise

----------------------------------------------------------------------------
(* Properties of generate_testset_with_pacing *)

RECURSIVE SumSizes(_, _)
SumSizes(q, n) == IF n <= 0 THEN 0 ELSE q[n].size + SumSizes(q, n - 1)

\* every successful call returned as many rows as were requested
ExactReturns == \A i \in 1..Len(sizes) : sizes[i].returned = sizes[i].size

RetrySleeps == SelectSeq(sleeps, LAMBDA s : s.kind = "retry")

\* the retry sleeps of batch number b, in order
RetrySleepsOf(b) == SelectSeq(sleeps, LAMBDA s : s.kind = "retry" /\ s.batch = b)

\* the latest call failed in this step
CallFailed == p_pc = "try" /\ ncalls' = ncalls + 1 /\ exc' # <<>>

Classified(e) == is_rate_limit(Lower(e)) \/ is_transient(Lower(e))

\* C1: a run that returns normally, every successful call having returned as
\* many rows as requested, asked each successful batch for
\* min(batch_size, remaining), the sizes sum to total, total rows are
\* returned and no row is counted twice; total=20, batch_size=7 gives 7, 7, 6.
C1_BatchesPartitionTotal ==
    (p_pc = "returned" /\ ExactReturns) =>
        /\ \A i \in 1..Len(sizes) :
              sizes[i].size =
                  Min(args.batch_size, args.total - SumSizes(sizes, i - 1))
        /\ SumSizes(sizes, Len(sizes)) = args.total
        /\ Len(caller_rows) = args.total
        /\ \A i, j \in 1..Len(caller_rows) :
              i # j => caller_rows[i] # caller_rows[j]
        /\ \A i \in 1..Len(sizes) :
              Cardinality({k \in 1..Len(caller_rows) :
                              caller_rows[k][1] = sizes[i].call}) = sizes[i].size
        /\ (args.total = 20 /\ args.batch_size = 7) =>
              [i \in 1..Len(sizes) |-> sizes[i].size] = <<7, 7, 6>>

\* a run of total=20, batch_size=7 returned 20 rows after one batch was retried
C1_Witness ==
    /\ p_pc = "returned"
    /\ ExactReturns
    /\ args = ExampleArgs
    /\ Len(RetrySleeps) > 0
    /\ Len(caller_rows) = 20

\* C2: when the run fails after earlier batches succeeded, the rows of those
\* batches reach the caller together with the failure.
C2_PartialRowsReturned ==
    (p_pc = "raised" /\ Len(rows) > 0) => caller_rows = rows

\* C3: a failed attempt classified transient or rate-limited, with
\* attempt < max_retries, sleeps retry_sleep_seconds * retry_backoff ^ attempt,
\* increments attempt and retries the same batch, remaining and rows
\* unchanged; the retry sleeps of a batch grow by the factor retry_backoff,
\* and a run that has not failed slept once per failed call ("429 rate limit"
\* twice, then success, max_retries=5: two sleeps, the second retry_backoff
\* times the first).
C3_RetryStep ==
    CallFailed /\ attempt < args.max_retries
               /\ (Classified(exc'[1]) \/ exc' = <<Msg429>>) =>
        /\ sleeps' = Append(sleeps,
                        [kind |-> "retry", batch |-> Len(sizes) + 1,
                         secs |-> args.retry_sleep_seconds
                                    * Pow(args.retry_backoff, attempt)])
        /\ attempt' = attempt + 1
        /\ p_pc' = "try"
        /\ current_size' = current_size
        /\ remaining' = remaining
        /\ rows' = rows

C3_Backoff ==
    /\ p_pc # "raised" => Len(RetrySleeps) = ncalls - Len(sizes)
    /\ \A b \in 1..(Len(sizes) + 1) :
          LET q == RetrySleepsOf(b)
          IN  /\ Len(q) <= args.max_retries
              /\ (b = Len(sizes) + 1 /\ p_pc = "try") => Len(q) = attempt
              /\ \A i \in 1..Len(q) :
                    /\ i = 1 => q[i].secs = args.retry_sleep_seconds
                    /\ i > 1 => q[i].secs = q[i - 1].secs * args.retry_backoff

C3_TransientIsRetried == []C3_Backoff /\ [][C3_RetryStep]_vars

\* "429 rate limit" twice on the first batch, then success, max_retries=5
C3_Witness ==
    /\ p_pc = "returned"
    /\ args.max_retries = 5
    /\ ncalls = Len(sizes) + 2
    /\ Len(RetrySleeps) = 2
    /\ RetrySleeps[1].batch = 1
    /\ RetrySleeps[2].batch = 1
    /\ RetrySleeps[2].secs = RetrySleeps[1].secs * args.retry_backoff
    /\ RetrySleeps[2].secs > RetrySleeps[1].secs

\* C4: a failed attempt whose error is not classified transient or
\* rate-limited ends the run as failed at once: no retry sleep, no further
\* call, whatever max_retries is.
C4_PermanentStep ==
    /\ (CallFailed /\ (~Classified(exc'[1]) \/ exc' = <<MsgInvalid>>)) =>
          /\ p_pc' = "raised"
          /\ sleeps' = sleeps
          /\ attempt' = attempt
    /\ p_pc = "raised" => (ncalls' = ncalls /\ sleeps' = sleeps /\ p_pc' = "raised")

C4_PermanentFailsAtOnce == [][C4_PermanentStep]_vars

\* "invalid request" on the first attempt of a later batch, retries allowed
C4_Witness ==
    /\ p_pc = "raised"
    /\ exc = <<MsgInvalid>>
    /\ args.max_retries > 0
    /\ attempt = 0
    /\ Len(sizes) > 0
    /\ sleeps = <<>>

\* the number of the batch being attempted
CurrentBatch == Len(sizes) + 1

\* C16: retry state is per batch. attempt is 0 when a batch starts; a batch
\* is called at most max_retries + 1 times, with at most max_retries retry
\* sleeps; a classified failure is retried exactly when the current batch
\* has had fewer than max_retries retries, whatever earlier batches used,
\* and otherwise fails the run.
C16_Step ==
    /\ (p_pc = "while" /\ p_pc' = "try") => attempt' = 0
    /\ (CallFailed /\ Classified(exc'[1])) =>
          /\ p_pc' = "try" <=> Len(RetrySleepsOf(CurrentBatch)) < args.max_retries
          /\ p_pc' # "try" => p_pc' = "raised"
    /\ (CallFailed /\ attempt >= args.max_retries) => p_pc' = "raised"

C16_Budget ==
    /\ attempt <= args.max_retries
    /\ ncalls = Len(RetrySleeps) + Len(sizes) + (IF p_pc = "raised" THEN 1 ELSE 0)
    /\ \A b \in 1..CurrentBatch : Len(RetrySleepsOf(b)) <= args.max_retries
    /\ \A i \in 1..Len(sleeps) :
          sleeps[i].kind = "retry" => sleeps[i].batch \in 1..CurrentBatch

C16_RetriesPerBatch == []C16_Budget /\ [][C16_Step]_vars

\* the first batch used all its retries and succeeded, and the second batch
\* was then retried as many times again
C16_Witness ==
    /\ args.max_retries >= 1
    /\ Len(sizes) >= 1
    /\ Len(RetrySleepsOf(1)) = args.max_retries
    /\ Len(RetrySleepsOf(2)) = args.max_retries

\* the run has ended: rows returned (succeeded) or exception raised (failed)
Terminal == p_pc \in {"returned", "raised"}

C17_TerminalStep ==
    Terminal => (p_pc' = p_pc /\ ncalls' = ncalls /\ sleeps' = sleeps)

C17_SucceededMeansDone == p_pc = "returned" => remaining = 0

\* C17: every run, whatever the calls return or raise, ends as succeeded or
\* as failed; it succeeds only with remaining = 0; once it has ended it
\* stays in that outcome, with no further batch call and no further sleep.
C17_Terminates ==
    /\ <>Terminal
    /\ []C17_SucceededMeansDone
    /\ [][C17_TerminalStep]_vars

\* a run of several batches succeeded after a retry
C17_Witness ==
    /\ p_pc = "returned"
    /\ remaining = 0
    /\ Len(sizes) >= 2
    /\ Len(RetrySleeps) >= 1

----------------------------------------------------------------------------
(* chunk_markdown.main: merging semantic chunks into passages *)

MaxChunks == 2
MaxChars == 4
MaxSize == 2
MaxOverlap == 1

Alphabet == {"a", " "}

\* characters str.split() treats as separators
IsSpace(c) == c \in {" ", "\n"}

RECURSIVE SplitAcc(_, _, _)
SplitAcc(s, cur, acc) ==
    IF s = <<>>
    THEN IF cur = <<>> THEN acc ELSE Append(acc, cur)
    ELSE IF IsSpace(Head(s))
         THEN SplitAcc(Tail(s), <<>>, IF cur = <<>> THEN acc ELSE Append(acc, cur))
         ELSE SplitAcc(Tail(s), Append(cur, Head(s)), acc)

\* Python str.split(): the maximal runs of non-whitespace characters
Split(s) == SplitAcc(s, <<>>, <<>>)

RECURSIVE Join(_)
\* Python " ".join(words)
Join(ws) ==
    IF ws = <<>> THEN <<>>
    ELSE IF Len(ws) = 1 THEN ws[1]
         ELSE ws[1] \o <<" ">> \o Join(Tail(ws))

\* Python seq[-n:] for n > 0
LastN(ws, n) == SubSeq(ws, Max(1, Len(ws) - n + 1), Len(ws))

\* line 97 (line 93 when the buffer is empty)
AppendTextMutPrepend(buf, chunk_text) ==
    IF buf = <<>> THEN chunk_text ELSE chunk_text \o <<"\n", "\n">> \o buf

AppendText(buf, chunk_text) ==
    IF buf = <<>> THEN chunk_text ELSE buf \o <<"\n", "\n">> \o chunk_text

\* line 101
FlushesMutNever(token_count, chunk_size) == FALSE

Flushes(token_count, chunk_size) == token_count >= chunk_size

\* line 107
OverlapTokensMutFirst(text, overlap) ==
    SubSeq(Split(text), 1, Min(overlap, Len(Split(text))))

OverlapTokensMutOneMore(text, overlap) == LastN(Split(text), overlap + 1)

OverlapTokens(text, overlap) == LastN(Split(text), overlap)

\* line 117
KeepsFinalMutAlways(text, min_tokens) == TRUE

KeepsFinalMutStrict(text, min_tokens) == Len(Split(text)) > min_tokens

KeepsFinal(text, min_tokens) == Len(Split(text)) >= min_tokens

\* a dict is a set of <<key, value>> pairs with distinct keys
SetKey(md, k, v) == {p \in md : p[1] # k} \cup {<<k, v>>}

\* lines 102-104 and 118-120
WithMergedMutAlways(md, count) == SetKey(md, "merged_chunks", count)

WithMerged(md, count) ==
    IF count > 1 THEN SetKey(md, "merged_chunks", count) ELSE md

\* dict(section.metadata), line 84: section 0 has no heading above it
SectionMetadata(sec) == IF sec = 0 THEN {} ELSE {<<"Header_1", sec>>}

\* the texts of at most c characters
Texts(c) == UNION {[1..k -> Alphabet] : k \in 0..c}

RECURSIVE TextSeqs(_, _)
\* the sequences of at most n texts that hold at most c characters in all
TextSeqs(n, c) ==
    IF n = 0 THEN {<<>>}
    ELSE {<<>>} \cup
         UNION {{<<t>> \o q : q \in TextSeqs(n - 1, c - Len(t))} : t \in Texts(c)}

\* lines 74-84: the semantic chunks of the sections, in document order; the
\* first j chunks belong to a section with no heading above it (section 0),
\* the rest to a section under a heading (section 1)
SemanticChunkSeqs ==
    UNION {{[i \in 1..Len(q) |->
                <<q[i], SectionMetadata(IF i <= j THEN 0 ELSE 1)>>] :
            j \in 0..Len(q)} : q \in TextSeqs(MaxChunks, MaxChars)}

----------------------------------------------------------------------------
(* The JSON Lines file between chunk_markdown and semantic_encoder. A text is
   a tuple of characters; a dictionary key is one symbol of that tuple. *)

DigitChars == <<"0", "1", "2", "3", "4", "5", "6", "7", "8", "9">>

RECURSIVE IntToChars(_)
\* json.dumps of a non-negative int
IntToChars(n) ==
    IF n < 10 THEN <<DigitChars[n + 1]>>
    ELSE IntToChars(n \div 10) \o <<DigitChars[(n % 10) + 1]>>

\* json.dumps escapes of one character inside a string
EscapeChar(c) ==
    IF c = "\n" THEN <<"\\", "n">>
    ELSE IF c = "\"" THEN <<"\\", "\"">>
    ELSE IF c = "\\" THEN <<"\\", "\\">>
    ELSE <<c>>

RECURSIVE Escaped(_)
Escaped(s) == IF s = <<>> THEN <<>> ELSE EscapeChar(Head(s)) \o Escaped(Tail(s))

\* json.dumps of a str
DumpsStr(s) == <<"\"">> \o Escaped(s) \o <<"\"">>

\* the keys a passage's metadata can hold, in insertion order (line 84, then
\* lines 104 and 120)
MetadataKeys == <<"Header_1", "merged_chunks">>

RECURSIVE DumpsItems(_, _, _)
\* the members of a dict, separated by ", ", each "key": value
DumpsItems(md, keys, first) ==
    IF keys = <<>> THEN <<>>
    ELSE LET k == Head(keys)
         IN  IF \E p \in md : p[1] = k
             THEN (IF first THEN <<>> ELSE <<",", " ">>)
                  \o DumpsStr(<<k>>) \o <<":", " ">>
                  \o IntToChars((CHOOSE p \in md : p[1] = k)[2])
                  \o DumpsItems(md, Tail(keys), FALSE)
             ELSE DumpsItems(md, Tail(keys), first)

\* chunk_markdown.py lines 127-128: json.dumps({"text": ..., "metadata": ...})
Dumps(text, metadata) ==
    <<"{">> \o DumpsStr(<<"text">>) \o <<":", " ">> \o DumpsStr(text)
    \o <<",", " ">> \o DumpsStr(<<"metadata">>) \o <<":", " ">>
    \o <<"{">> \o DumpsItems(metadata, MetadataKeys, TRUE) \o <<"}">> \o <<"}">>

RECURSIVE WriteLines(_)
\* chunk_markdown.py lines 123-129: one line per passage, in order
WriteLines(sections) ==
    IF sections = <<>> THEN <<>>
    ELSE Dumps(Head(sections)[1], Head(sections)[2]) \o <<"\n">>
         \o WriteLines(Tail(sections))

\* semantic_encoder.py line 41: iterating a text file yields its lines, each
\* with its line end (the last one without, when the file does not end in one)
FileLines(s) ==
    LET ends == {i \in 1..Len(s) : s[i] = "\n"}
        End(k) == CHOOSE p \in ends : Cardinality({q \in ends : q <= p}) = k
        Start(k) == IF k = 1 THEN 1 ELSE End(k - 1) + 1
        n == Cardinality(ends)
        whole == [k \in 1..n |-> SubSeq(s, Start(k), End(k))]
        rest == IF n = 0 THEN 1 ELSE End(n) + 1
    IN  IF rest <= Len(s) THEN Append(whole, SubSeq(s, rest, Len(s))) ELSE whole

RECURSIVE LStrip(_)
LStrip(s) == IF s # <<>> /\ IsSpace(Head(s)) THEN LStrip(Tail(s)) ELSE s

RECURSIVE RStrip(_)
RStrip(s) ==
    IF s # <<>> /\ IsSpace(s[Len(s)]) THEN RStrip(SubSeq(s, 1, Len(s) - 1)) ELSE s

\* semantic_encoder.py line 42: str.strip()
Strip(s) == RStrip(LStrip(s))

RECURSIVE SkipWs(_, _)
\* the first index from i on that holds no whitespace
SkipWs(s, i) == IF i <= Len(s) /\ IsSpace(s[i]) THEN SkipWs(s, i + 1) ELSE i

\* json.loads of an escape sequence \c
Unescape(c) == IF c = "n" THEN "\n" ELSE c

RECURSIVE ScanStr(_, _, _)
\* json.loads of a string whose opening quote is at i - 1
ScanStr(s, i, acc) ==
    IF s[i] = "\"" THEN [val |-> acc, next |-> i + 1]
    ELSE IF s[i] = "\\" THEN ScanStr(s, i + 2, Append(acc, Unescape(s[i + 1])))
         ELSE ScanStr(s, i + 1, Append(acc, s[i]))

IsDigit(c) == \E d \in 1..10 : DigitChars[d] = c

DigitValue(c) == (CHOOSE d \in 1..10 : DigitChars[d] = c) - 1

RECURSIVE ScanInt(_, _, _)
\* json.loads of a non-negative int that starts at i
ScanInt(s, i, acc) ==
    IF i <= Len(s) /\ IsDigit(s[i])
    THEN ScanInt(s, i + 1, acc * 10 + DigitValue(s[i]))
    ELSE [val |-> acc, next |-> i]

RECURSIVE ScanValue(_, _)
RECURSIVE ScanMembers(_, _, _)
\* json.loads of the value that starts at or after i: an object, a string or
\* an int
ScanValue(s, i) ==
    LET j == SkipWs(s, i)
    IN  IF s[j] = "{" THEN ScanMembers(s, SkipWs(s, j + 1), <<>>)
        ELSE IF s[j] = "\"" THEN ScanStr(s, j + 1, <<>>)
             ELSE ScanInt(s, j, 0)

\* the members of an object, as <<key, value>> in file order, up to its "}"
ScanMembers(s, i, acc) ==
    IF s[i] = "}" THEN [val |-> acc, next |-> i + 1]
    ELSE IF s[i] = "," THEN ScanMembers(s, SkipWs(s, i + 1), acc)
         ELSE LET k == ScanStr(s, i + 1, <<>>)
                  v == ScanValue(s, SkipWs(s, k.next) + 1)
              IN  ScanMembers(s, SkipWs(s, v.next), Append(acc, <<k.val, v.val>>))

\* semantic_encoder.py line 45: json.loads(line)
Loads(line) == ScanValue(line, 1).val

\* record[key]
Lookup(record, key) ==
    record[CHOOSE i \in 1..Len(record) : record[i][1] = <<key>>][2]

\* a parsed object as a dict: the set of its <<key, value>> pairs
AsDict(members) == {<<members[i][1][1], members[i][2]>> : i \in 1..Len(members)}

\* semantic_encoder.py lines 46-48: record.get("metadata", {}), replaced by
\* the line index when it is empty
MetadataOfMutKeep(record, idx) ==
    IF \E i \in 1..Len(record) : record[i][1] = <<"metadata">>
    THEN AsDict(Lookup(record, "metadata"))
    ELSE {}

MetadataOf(record, idx) ==
    LET metadata == IF \E i \in 1..Len(record) : record[i][1] = <<"metadata">>
                    THEN AsDict(Lookup(record, "metadata"))
                    ELSE {}
    IN  IF metadata = {} THEN {<<"chunk_index", idx>>} ELSE metadata

RECURSIVE LoadLines(_, _, _)
\* semantic_encoder.py lines 41-49: the loop over the enumerated lines
LoadLines(lines, idx, acc) ==
    IF lines = <<>> THEN acc
    ELSE LET line == Strip(Head(lines))
         IN  IF line = <<>>
             THEN LoadLines(Tail(lines), idx + 1, acc)
             ELSE LET record == Loads(line)
                  IN  LoadLines(Tail(lines), idx + 1,
                                Append(acc, <<Lookup(record, "text"),
                                              MetadataOf(record, idx)>>))

ChunkArgs ==
    [chunk_size : 0..MaxSize, min_tokens : 0..MaxSize, overlap : 0..MaxOverlap]

ChunkInit ==
    /\ cargs \in ChunkArgs
    /\ semantic_chunks \in SemanticChunkSeqs
    /\ pos = 1
    /\ buffer_text = <<>>
    /\ buffer_metadata = {}
    /\ buffer_count = 0
    /\ merged_sections = <<>>
    /\ c_pc = "loop"
    /\ buffer_seed = 0
    /\ seeds = <<>>
    /\ buffer_folded = <<>>
    /\ buffer_src = <<>>
    /\ folded = <<>>
    /\ srcs = <<>>
    /\ output_file = <<>>
    /\ chunks = <<>>
    /\ e_pc = "idle"

ChunkIdle ==
    /\ cargs = [chunk_size |-> 0, min_tokens |-> 0, overlap |-> 0]
    /\ semantic_chunks = <<>>
    /\ pos = 1
    /\ buffer_text = <<>>
    /\ buffer_metadata = {}
    /\ buffer_count = 0
    /\ merged_sections = <<>>
    /\ c_pc = "idle"
    /\ buffer_seed = 0
    /\ seeds = <<>>
    /\ buffer_folded = <<>>
    /\ buffer_src = <<>>
    /\ folded = <<>>
    /\ srcs = <<>>
    /\ output_file = <<>>
    /\ chunks = <<>>
    /\ e_pc = "idle"

\* lines 91-114: one iteration of the merge loop
MergeStep ==
    /\ c_pc = "loop"
    /\ pos <= Len(semantic_chunks)
    /\ LET chunk_text == semantic_chunks[pos][1]
           chunk_metadata == semantic_chunks[pos][2]
           empty == buffer_text = <<>>
           text1 == AppendText(buffer_text, chunk_text)
           meta1 == IF empty THEN chunk_metadata ELSE buffer_metadata
           count1 == IF empty THEN 1 ELSE buffer_count + 1
           seed1 == IF empty THEN 0 ELSE buffer_seed
           folded1 == IF empty THEN <<pos>> ELSE Append(buffer_folded, pos)
           src1 == buffer_src \o [i \in 1..Len(Split(chunk_text)) |-> pos]
           token_count == Len(Split(text1))
       IN  IF Flushes(token_count, cargs.chunk_size)
           THEN /\ merged_sections' =
                      Append(merged_sections, <<text1, WithMerged(meta1, count1)>>)
                /\ seeds' = Append(seeds, seed1)
                /\ folded' = Append(folded, folded1)
                /\ srcs' = Append(srcs, src1)
                /\ IF cargs.overlap > 0
                   THEN LET overlap_tokens == OverlapTokens(text1, cargs.overlap)
                        IN  /\ buffer_text' = Join(overlap_tokens)
                            /\ buffer_metadata' = chunk_metadata
                            /\ buffer_count' = 1
                            /\ buffer_seed' = Len(overlap_tokens)
                            /\ buffer_folded' = <<>>
                            /\ buffer_src' = LastN(src1, cargs.overlap)
                   ELSE /\ buffer_text' = <<>>
                        /\ buffer_metadata' = {}
                        /\ buffer_count' = 0
                        /\ buffer_seed' = 0
                        /\ buffer_folded' = <<>>
                        /\ buffer_src' = <<>>
           ELSE /\ buffer_text' = text1
                /\ buffer_metadata' = meta1
                /\ buffer_count' = count1
                /\ buffer_seed' = seed1
                /\ buffer_folded' = folded1
                /\ buffer_src' = src1
                /\ UNCHANGED <<merged_sections, seeds, folded, srcs>>
    /\ pos' = pos + 1
    /\ UNCHANGED <<cargs, semantic_chunks, c_pc, output_file, chunks, e_pc>>
    /\ UNCHANGED <<pacerVars, rankVars>>

\* lines 116-129: the input is exhausted; the final buffer is emitted or
\* dropped and the passages are written to args.output
FinalFlush ==
    /\ c_pc = "loop"
    /\ pos > Len(semantic_chunks)
    /\ IF buffer_text # <<>> /\ KeepsFinal(buffer_text, cargs.min_tokens)
       THEN /\ merged_sections' =
                  Append(merged_sections,
                         <<buffer_text, WithMerged(buffer_metadata, buffer_count)>>)
            /\ seeds' = Append(seeds, buffer_seed)
            /\ folded' = Append(folded, buffer_folded)
            /\ srcs' = Append(srcs, buffer_src)
       ELSE UNCHANGED <<merged_sections, seeds, folded, srcs>>
    /\ output_file' = WriteLines(merged_sections')
    /\ c_pc' = "done"
    /\ UNCHANGED <<cargs, semantic_chunks, pos, buffer_text, buffer_metadata,
                   buffer_count, buffer_seed, buffer_folded, buffer_src,
                   chunks, e_pc>>
    /\ UNCHANGED <<pacerVars, rankVars>>

\* semantic_encoder.py lines 38-50, called at line 60 on the file written
\* by chunk_markdown
load_chunks ==
    /\ c_pc = "done"
    /\ e_pc = "idle"
    /\ chunks' = LoadLines(FileLines(output_file), 0, <<>>)
    /\ e_pc' = "loaded"
    /\ UNCHANGED <<cargs, semantic_chunks, pos, buffer_text, buffer_metadata,
                   buffer_count, merged_sections, c_pc, buffer_seed, seeds,
                   buffer_folded, buffer_src, folded, srcs, output_file>>
    /\ UNCHANGED <<pacerVars, rankVars>>

ChunkNext ==
    \/ MergeStep
    \/ FinalFlush

\* chunk_markdown, then semantic_encoder on the file it wrote
StoreNext ==
    \/ MergeStep
    \/ FinalFlush
    \/ load_chunks

----------------------------------------------------------------------------
(* Properties of the chunk assembler *)

\* the words of the i-th emitted passage
PassageWords(i) == Split(merged_sections[i][1])

\* the last k words of ws, in order
Trailing(ws, k) == SubSeq(ws, Len(ws) - k + 1, Len(ws))

\* ws without its first k words
After(ws, k) == SubSeq(ws, k + 1, Len(ws))

RECURSIVE InputWords(_)
\* the words of the first n sub-passages, in input order
InputWords(n) ==
    IF n <= 0 THEN <<>> ELSE InputWords(n - 1) \o Split(semantic_chunks[n][1])

RECURSIVE Stripped(_)
\* the words of the first n emitted passages, each without its overlap seed
Stripped(n) ==
    IF n <= 0 THEN <<>> ELSE Stripped(n - 1) \o After(PassageWords(n), seeds[n])

\* the final buffer was left over and not emitted
FinalDiscarded ==
    c_pc = "done" /\ ~(buffer_text # <<>> /\ Len(Split(buffer_text)) >= cargs.min_tokens)

\* C5: with chunk_size >= min_tokens every emitted passage, flushed at the
\* target size or emitted as the final buffer, has at least min_tokens
\* words; an input with fewer than min_tokens words in all yields no passage.
C5_PassagesReachMinimum ==
    cargs.chunk_size >= cargs.min_tokens =>
        /\ \A i \in 1..Len(merged_sections) :
              Len(PassageWords(i)) >= cargs.min_tokens
        /\ Len(InputWords(Len(semantic_chunks))) < cargs.min_tokens =>
              merged_sections = <<>>

\* a final buffer shorter than the target was emitted after a flushed passage
C5_Witness ==
    /\ c_pc = "done"
    /\ cargs.min_tokens > 0
    /\ cargs.chunk_size >= cargs.min_tokens
    /\ Len(merged_sections) = 2
    /\ Len(PassageWords(2)) < cargs.chunk_size

\* C6: with overlap > 0 the seeded leading words of passage N+1 are exactly
\* the last min(overlap, words of N) words of passage N, in order; with
\* overlap = 0 passage N+1 has no seeded prefix.
C6_OverlapIsTrailingWords ==
    \A n \in 1..(Len(merged_sections) - 1) :
        LET k == Min(cargs.overlap, Len(PassageWords(n)))
        IN  IF cargs.overlap > 0
            THEN /\ seeds[n + 1] = k
                 /\ k >= 0 /\ k <= cargs.overlap
                 /\ Len(PassageWords(n + 1)) >= k
                 /\ SubSeq(PassageWords(n + 1), 1, k) = Trailing(PassageWords(n), k)
            ELSE seeds[n + 1] = 0

\* two passages, the first longer than the overlap and ending in a word other
\* than the one it starts with
C6_Witness ==
    /\ cargs.overlap > 0
    /\ Len(merged_sections) >= 2
    /\ Len(PassageWords(1)) > cargs.overlap
    /\ PassageWords(1)[1] # PassageWords(1)[Len(PassageWords(1))]
    /\ seeds[2] = cargs.overlap

\* C7 as stated: the emitted passages without their overlap seeds, in
\* emission order, spell the input's words in input order.
C7_ReconstructsInput ==
    c_pc = "done" =>
        Stripped(Len(merged_sections)) = InputWords(Len(semantic_chunks))

\* C7 amended: while the loop runs, the emitted passages without their seeds
\* followed by the buffer without its seed spell the words of the
\* sub-passages read so far; at the end the emitted passages spell the whole
\* input, except for the unseeded words of a final buffer discarded for
\* having fewer than min_tokens words, which are the input's last words.
C7_ReconstructsUpToDiscardedTail ==
    LET emitted == Stripped(Len(merged_sections))
        pending == After(Split(buffer_text), buffer_seed)
    IN  /\ c_pc = "loop" => emitted \o pending = InputWords(pos - 1)
        /\ (c_pc = "done" /\ ~FinalDiscarded) =>
              emitted = InputWords(Len(semantic_chunks))
        /\ (c_pc = "done" /\ FinalDiscarded) =>
              emitted \o pending = InputWords(Len(semantic_chunks))

\* a passage was emitted and a final buffer holding input words was discarded
C7_Witness ==
    /\ FinalDiscarded
    /\ Len(merged_sections) >= 1
    /\ After(Split(buffer_text), buffer_seed) # <<>>

\* C11 as stated: the passages loaded from the JSON Lines file are the
\* passages written, text and metadata, in the same number and order, also
\* for a passage whose metadata is empty.
C11_RoundTripsExactly ==
    e_pc = "loaded" => chunks = merged_sections

\* C11 amended: the loaded passages are as many as the written ones and in
\* the same order, every text is the written text, and every non-empty
\* metadata is the written metadata; a passage written with empty metadata
\* is loaded with the metadata {"chunk_index": its line index}.
C11_RoundTripsUpToChunkIndex ==
    e_pc = "loaded" =>
        /\ Len(chunks) = Len(merged_sections)
        /\ \A i \in 1..Len(chunks) :
              /\ chunks[i][1] = merged_sections[i][1]
              /\ chunks[i][2] = IF merged_sections[i][2] = {}
                                THEN {<<"chunk_index", i - 1>>}
                                ELSE merged_sections[i][2]

\* a passage with empty metadata and a merged passage, whose text holds the
\* line breaks of the merge, were written and loaded
C11_Witness ==
    /\ e_pc = "loaded"
    /\ Len(merged_sections) = 2
    /\ merged_sections[1][2] = {}
    /\ \E p \in merged_sections[2][2] : p[1] = "merged_chunks"
    /\ \E i \in 1..Len(merged_sections[2][1]) : merged_sections[2][1][i] = "\n"
    /\ chunks[1][2] = {<<"chunk_index", 0>>}

\* the token count of the whole input
TotalTokens == Len(InputWords(Len(semantic_chunks)))

\* the input holds no character at all
NoText == \A i \in 1..Len(semantic_chunks) : semantic_chunks[i][1] = <<>>

\* min_tokens <= total token count < chunk_size
BetweenMinAndTarget ==
    /\ cargs.chunk_size >= cargs.min_tokens
    /\ TotalTokens >= cargs.min_tokens
    /\ TotalTokens < cargs.chunk_size

\* C12 as stated: an input whose total token count lies in
\* [min_tokens, chunk_size) yields exactly one passage, also with
\* min_tokens = 0 and an input of zero tokens.
C12_ExactlyOnePassage ==
    (c_pc = "done" /\ BetweenMinAndTarget) => Len(merged_sections) = 1

\* C12 amended: for such an input nothing is flushed during the loop, and
\* the final buffer is emitted as the one passage, unless the input holds no
\* character at all (no sub-passage, or only empty ones): then no passage is
\* emitted. A whitespace-only input of zero tokens with min_tokens = 0 does
\* yield its one passage.
C12_OnePassageUnlessNoText ==
    BetweenMinAndTarget =>
        /\ c_pc = "loop" => merged_sections = <<>>
        /\ c_pc = "done" =>
              IF NoText THEN merged_sections = <<>>
              ELSE /\ Len(merged_sections) = 1
                   /\ merged_sections[1][1] = buffer_text
                   /\ Len(PassageWords(1)) = TotalTokens

\* two sub-passages with at least min_tokens >= 1 and fewer than chunk_size
\* words in all came out as one passage
C12_Witness ==
    /\ c_pc = "done"
    /\ BetweenMinAndTarget
    /\ cargs.min_tokens >= 1
    /\ Len(semantic_chunks) = 2
    /\ Len(merged_sections) = 1

\* the metadata carries a merged_chunks entry
HasMerged(md) == \E p \in md : p[1] = "merged_chunks"

\* the text of the overlap seed the i-th emitted passage started from
SeedText(i) ==
    IF i > 1 THEN Join(Trailing(PassageWords(i - 1), seeds[i])) ELSE <<>>

RECURSIVE Concatenated(_, _, _)
\* buf followed by the texts of the sub-passages ps[k..], blank-line separated
Concatenated(buf, ps, k) ==
    IF k > Len(ps) THEN buf
    ELSE Concatenated(AppendText(buf, semantic_chunks[ps[k]][1]), ps, k + 1)

\* C13 as stated: merged_chunks of every emitted passage is the number of
\* sub-passages concatenated into it, which is at least 1, and is omitted
\* exactly when that number is 1; the overlap seed is not counted.
C13_CountsSubPassages ==
    \A i \in 1..Len(merged_sections) :
        LET n == Len(folded[i])
            md == merged_sections[i][2]
        IN  /\ merged_sections[i][1] = Concatenated(SeedText(i), folded[i], 1)
            /\ n >= 1
            /\ HasMerged(md) <=> n > 1
            /\ HasMerged(md) => <<"merged_chunks", n>> \in md

\* C13 amended: a passage is its overlap seed followed by the sub-passages
\* concatenated into it, and merged_chunks is the number of those
\* sub-passages plus one for a non-empty overlap seed; that count is at
\* least 1 and merged_chunks is omitted exactly when it is 1.
C13_CountsSubPassagesAndSeed ==
    \A i \in 1..Len(merged_sections) :
        LET n == Len(folded[i]) + (IF seeds[i] > 0 THEN 1 ELSE 0)
            md == merged_sections[i][2]
        IN  /\ merged_sections[i][1] = Concatenated(SeedText(i), folded[i], 1)
            /\ n >= 1
            /\ HasMerged(md) <=> n > 1
            /\ HasMerged(md) => <<"merged_chunks", n>> \in md

\* a passage that is an overlap seed followed by one sub-passage carries
\* merged_chunks = 2, after a first passage of one sub-passage that carries none
C13_Witness ==
    /\ Len(merged_sections) = 2
    /\ ~HasMerged(merged_sections[1][2])
    /\ seeds[2] > 0
    /\ Len(folded[2]) = 1
    /\ <<"merged_chunks", 2>> \in merged_sections[2][2]

\* the metadata without its merged_chunks entry
BaseMetadata(md) == {p \in md : p[1] # "merged_chunks"}

\* the metadata of the first sub-passage concatenated into the i-th passage
FirstFoldedMetadata(i) == semantic_chunks[folded[i][1]][2]

\* C14 as stated: every emitted passage carries the metadata of the first
\* sub-passage folded into it, plus merged_chunks when present, and nothing
\* else, with or without overlap and also when it starts from an overlap seed.
C14_FirstSubPassageMetadata ==
    \A i \in 1..Len(merged_sections) :
        folded[i] # <<>> =>
            BaseMetadata(merged_sections[i][2]) = FirstFoldedMetadata(i)

\* C15 as stated: a configuration with chunk_size < min_tokens is rejected
\* at construction: no sub-passage is processed, no passage is emitted and
\* nothing is written.
C15_InvalidConfigRejected ==
    cargs.chunk_size < cargs.min_tokens =>
        /\ pos = 1
        /\ merged_sections = <<>>
        /\ output_file = <<>>
        /\ c_pc # "done"

\* the sections (known by their metadata) of the sub-passages whose indices
\* are listed in ps
SectionsOf(ps) == {semantic_chunks[ps[k]][2] : k \in 1..Len(ps)}

\* C18 as stated: the buffer is scoped to one section. What it holds when a
\* sub-passage of another section is read is never carried over, so no
\* emitted passage holds sub-passage text or overlap words of two sections.
C18_BufferWithinOneSection ==
    /\ (c_pc = "loop" /\ pos <= Len(semantic_chunks) /\ buffer_text # <<>>) =>
          SectionsOf(buffer_folded) \cup SectionsOf(buffer_src)
              \subseteq {semantic_chunks[pos][2]}
    /\ \A i \in 1..Len(merged_sections) :
          Cardinality(SectionsOf(folded[i]) \cup SectionsOf(srcs[i])) <= 1

----------------------------------------------------------------------------
(* retrieval_qa: get_reranker and rerank_documents *)

MaxDocs == 3
MaxScore == 2
MaxTopK == 4

ModelNames == {"ms-marco-MiniLM", "bge-reranker"}

\* exceptions reranker.predict may raise
ScoreErrors ==
    { [type |-> "RuntimeError", cause |-> <<>>],
      [type |-> "ValueError", cause |-> <<>>] }

\* the lists the similarity search may supply: distinct Document objects
Pools ==
    LET raw == UNION {[1..k -> 1..MaxDocs] : k \in 0..MaxDocs}
    IN  {q \in raw : \A i, j \in 1..Len(q) : i # j => q[i] # q[j]}

\* insertion of one (doc, score) item into a list sorted by score descending,
\* after every item whose score is at least as high
InsertDescMutBeforeTies(sorted, item) ==
    LET k == Cardinality({i \in 1..Len(sorted) : sorted[i][2] > item[2]})
    IN  SubSeq(sorted, 1, k) \o <<item>> \o SubSeq(sorted, k + 1, Len(sorted))

InsertDescMutAscending(sorted, item) ==
    LET k == Cardinality({i \in 1..Len(sorted) : sorted[i][2] <= item[2]})
    IN  SubSeq(sorted, 1, k) \o <<item>> \o SubSeq(sorted, k + 1, Len(sorted))

InsertDesc(sorted, item) ==
    LET k == Cardinality({i \in 1..Len(sorted) : sorted[i][2] >= item[2]})
    IN  SubSeq(sorted, 1, k) \o <<item>> \o SubSeq(sorted, k + 1, Len(sorted))

RECURSIVE SortedDescFrom(_, _, _)
SortedDescFrom(items, i, acc) ==
    IF i > Len(items) THEN acc
    ELSE SortedDescFrom(items, i + 1, InsertDesc(acc, items[i]))

\* line 36: sorted(zip(docs, scores), key=lambda item: item[1], reverse=True)
SortedDesc(docs, scores) ==
    SortedDescFrom([i \in 1..Len(docs) |-> <<docs[i], scores[i]>>], 1, <<>>)

\* line 37: ranked[:top_k]
TakeMutDropFirst(ranked, top_k) ==
    SubSeq(ranked, 2, Min(top_k + 1, Len(ranked)))

TakeMutOneMore(ranked, top_k) == SubSeq(ranked, 1, Min(top_k + 1, Len(ranked)))

Take(ranked, top_k) ==
    IF top_k >= 0
    THEN SubSeq(ranked, 1, Min(top_k, Len(ranked)))
    ELSE SubSeq(ranked, 1, Max(Len(ranked) + top_k, 0))

\* lines 23-27
get_reranker(cached, model_name) ==
    IF cached = <<>> THEN <<model_name>> ELSE cached

\* what a predict() failure becomes for the caller of rerank_documents:
\* lines 33-37 have no try/except, the exception propagates as it is
RaisedMutFallback(docs, e) ==
    [kind |-> "return", docs |-> docs, exc |-> <<>>]

Raised(docs, e) == [kind |-> "raise", docs |-> <<>>, exc |-> <<e>>]

NoCall == [docs |-> <<>>, top_k |-> 0, model_name |-> "None"]

NoOut == [kind |-> "none", docs |-> <<>>, exc |-> <<>>]

RankInit ==
    /\ reranker = <<>>
    /\ r_call = NoCall
    /\ r_scores = <<>>
    /\ r_raised = <<>>
    /\ r_ranked = <<>>
    /\ r_out = NoOut
    /\ r_loads = 0
    /\ r_pc = "idle"

\* lines 30-32: a call with an empty pool returns it at once
RerankEmpty ==
    /\ r_pc = "idle"
    /\ \E k \in 0..MaxTopK, m \in ModelNames :
          r_call' = [docs |-> <<>>, top_k |-> k, model_name |-> m]
    /\ r_out' = [kind |-> "return", docs |-> <<>>, exc |-> <<>>]
    /\ r_pc' = "returned"
    /\ UNCHANGED <<reranker, r_loads, r_scores, r_raised, r_ranked>>
    /\ UNCHANGED <<pacerVars, chunkVars>>

\* lines 30-34: a call with a non-empty pool, up to the predict() call
RerankBegin ==
    /\ r_pc = "idle"
    /\ \E docs \in Pools \ {<<>>}, k \in 0..MaxTopK, m \in ModelNames :
          /\ r_call' = [docs |-> docs, top_k |-> k, model_name |-> m]
          /\ reranker' = get_reranker(reranker, m)
    /\ r_loads' = IF reranker = <<>> THEN r_loads + 1 ELSE r_loads
    /\ r_pc' = "predict"
    /\ UNCHANGED <<r_scores, r_raised, r_ranked, r_out>>
    /\ UNCHANGED <<pacerVars, chunkVars>>

\* lines 35-37: predict() returns one score per pair
PredictReturns ==
    /\ r_pc = "predict"
    /\ \E scores \in [1..Len(r_call.docs) -> 0..MaxScore] :
          /\ r_scores' = scores
          /\ r_ranked' = SortedDesc(r_call.docs, scores)
    /\ r_out' = [kind |-> "return",
                 docs |-> [i \in 1..Len(Take(r_ranked', r_call.top_k)) |->
                              Take(r_ranked', r_call.top_k)[i][1]],
                 exc |-> <<>>]
    /\ r_pc' = "returned"
    /\ UNCHANGED <<reranker, r_call, r_raised, r_loads>>
    /\ UNCHANGED <<pacerVars, chunkVars>>

\* line 35: predict() raises
PredictRaises ==
    /\ r_pc = "predict"
    /\ \E e \in ScoreErrors :
          /\ r_raised' = <<e>>
          /\ r_out' = Raised(r_call.docs, e)
    /\ r_pc' = "returned"
    /\ UNCHANGED <<reranker, r_call, r_scores, r_ranked, r_loads>>
    /\ UNCHANGED <<pacerVars, chunkVars>>

\* line 49: the retriever hands the outcome on; the call's locals are gone,
\* the module global _reranker stays
CallEnds ==
    /\ r_pc = "returned"
    /\ r_call' = NoCall
    /\ r_scores' = <<>>
    /\ r_raised' = <<>>
    /\ r_ranked' = <<>>
    /\ r_out' = NoOut
    /\ r_pc' = "idle"
    /\ UNCHANGED <<reranker, r_loads>>
    /\ UNCHANGED <<pacerVars, chunkVars>>

RankNext ==
    \/ RerankEmpty
    \/ RerankBegin
    \/ PredictReturns
    \/ PredictRaises
    \/ CallEnds

----------------------------------------------------------------------------
(* Properties of rerank_documents *)

\* a call on a non-empty pool has returned its documents
Reranked == r_pc = "returned" /\ r_call.docs # <<>> /\ r_raised = <<>>

\* place of document d in the pool the similarity search supplied
PoolRank(d) == CHOOSE i \in 1..Len(r_call.docs) : r_call.docs[i] = d

\* the score predict() gave document d
ScoreOf(d) == r_scores[PoolRank(d)]

Range(q) == {q[i] : i \in 1..Len(q)}

NoRepeats(q) == \A i, j \in 1..Len(q) : i # j => q[i] # q[j]

\* C8: with top_k >= pool size the output is a permutation of the pool; with
\* top_k < pool size it has exactly top_k candidates, each scored at least
\* as high as every excluded candidate.
C8_TopKSelection ==
    Reranked =>
        LET pool == r_call.docs
            out == r_out.docs
        IN  /\ r_out.kind = "return"
            /\ NoRepeats(out)
            /\ Range(out) \subseteq Range(pool)
            /\ r_call.top_k >= Len(pool) =>
                  (Len(out) = Len(pool) /\ Range(out) = Range(pool))
            /\ r_call.top_k < Len(pool) =>
                  /\ Len(out) = r_call.top_k
                  /\ \A d \in Range(out), e \in Range(pool) \ Range(out) :
                        ScoreOf(d) >= ScoreOf(e)

\* a proper, non-empty selection from a pool whose scores differ and whose
\* best candidate was not first in the pool
C8_Witness ==
    /\ Reranked
    /\ r_call.top_k >= 1
    /\ r_call.top_k < Len(r_call.docs)
    /\ r_out.docs[1] # r_call.docs[1]
    /\ \E e \in Range(r_call.docs) \ Range(r_out.docs) :
          ScoreOf(e) < ScoreOf(r_out.docs[1])

\* C9: the output is ordered by score descending, and candidates with equal
\* scores keep the relative order the similarity search gave them.
C9_DescendingAndStable ==
    Reranked =>
        \A i, j \in 1..Len(r_out.docs) :
            i < j =>
                \/ ScoreOf(r_out.docs[i]) > ScoreOf(r_out.docs[j])
                \/ /\ ScoreOf(r_out.docs[i]) = ScoreOf(r_out.docs[j])
                   /\ PoolRank(r_out.docs[i]) < PoolRank(r_out.docs[j])

\* two tied candidates were returned behind a better one that came later in
\* the pool
C9_Witness ==
    /\ Reranked
    /\ Len(r_out.docs) = 3
    /\ ScoreOf(r_out.docs[1]) > ScoreOf(r_out.docs[2])
    /\ ScoreOf(r_out.docs[2]) = ScoreOf(r_out.docs[3])
    /\ PoolRank(r_out.docs[1]) = 3

C19_ScoredByOwnModel ==
    /\ (r_pc \in {"predict", "returned"} /\ r_call.docs # <<>>) =>
          reranker = <<r_call.model_name>>
    /\ (r_pc = "returned" /\ r_call.docs = <<>>) =>
          /\ r_out = [kind |-> "return", docs |-> <<>>, exc |-> <<>>]
          /\ r_scores = <<>>
          /\ r_raised = <<>>

----------------------------------------------------------------------------
(* Specifications: one per component, the other two components at rest *)

InitPacer == PacerInit /\ ChunkIdle /\ RankInit

SpecPacer == InitPacer /\ [][PacerNext]_vars

\* the function runs to its end: every call and every sleep returns
SpecPacerFair == InitPacer /\ [][PacerNext]_vars /\ WF_vars(PacerNext)

InitChunk == ChunkInit /\ PacerIdle /\ RankInit

SpecChunk == InitChunk /\ [][ChunkNext]_vars

SpecStore == InitChunk /\ [][StoreNext]_vars

InitRank == RankInit /\ PacerIdle /\ ChunkIdle

SpecRank == InitRank /\ [][RankNext]_vars

====
